---------------------------- MODULE Spec2Model ----------------------------
(***************************************************************************)
(* anthropic-types: the wire schema of the completion API.                 *)
(*                                                                         *)
(* The crate is a set of type declarations whose encode/decode behaviour   *)
(* is generated by serde's derive macros from the declarations and their   *)
(* attributes (tag, untagged, rename, skip_serializing_if), plus the two   *)
(* lookups of models.rs.  The model therefore has three layers:            *)
(*   1. JSON values (the wire);                                            *)
(*   2. one type descriptor per Rust type, transcribed field by field      *)
(*      from the declaration, and the two interpreters Serialize and       *)
(*      Deserialize that do what the derive does for such a declaration;   *)
(*   3. a state machine: a caller builds a value or a transport delivers   *)
(*      a payload (possibly from a peer on another schema generation:      *)
(*      a field dropped, nulled, re-tagged or added), then the crate       *)
(*      serializes or deserializes it.                                     *)
(*                                                                         *)
(* Out of the payload domain: records written positionally as JSON arrays  *)
(* and enums written as single-key maps (serde accepts both); no payload   *)
(* of the model has that shape.                                            *)
(***************************************************************************)
EXTENDS Integers, Sequences, FiniteSets, TLC

VARIABLES pc, kind, src, value, sent, wire, damage, result, call

vars == <<pc, kind, src, value, sent, wire, damage, result, call>>

(***************************************************************************)
(* Bounds of the model.                                                    *)
(***************************************************************************)
\* Longest sequence enumerated for a Vec inside a content block.
MaxLen == 1

\* Longest sequence of blocks handed to Message::new_structured.
MaxBlocks == 2

(***************************************************************************)
(* Layer 1: JSON values.  Each kind keeps its payload under a field of its *)
(* own name, so that two JSON values of different kinds differ by domain.  *)
(***************************************************************************)
JNull == [k |-> "null"]

JStr(s) == [k |-> "string", s |-> s]

\* An integer literal such as 1024 or -1.  Every integer of the model is
\* below 2^32, so for a u32 only its sign can put it out of range.
JNum(n) == [k |-> "number", n |-> n]

\* A literal with a fraction, in tenths: JFloat(7) is 0.7.
JFloat(t) == [k |-> "float", t |-> t]

JBool(b) == [k |-> "bool", b |-> b]

JArr(a) == [k |-> "array", a |-> a]

\* o is a function from keys (strings) to JSON values.
JObj(o) == [k |-> "object", o |-> o]

EmptyMap == [x \in {} |-> JNull]

Without(o, key) == [x \in (DOMAIN o) \ {key} |-> o[x]]

Min(S) == CHOOSE x \in S : \A y \in S : x <= y

(***************************************************************************)
(* In-memory values.                                                       *)
(***************************************************************************)
None == [some |-> FALSE]

Some(v) == [some |-> TRUE, v |-> v]

Ok(v) == [ok |-> TRUE, v |-> v]

\* A serde error: its kind and the field, variant or type it names.
Err(kind_, what) == [ok |-> FALSE, kind |-> kind_, what |-> what]

(***************************************************************************)
(* Layer 2a: type descriptors.                                             *)
(***************************************************************************)
TString == [t |-> "String"]

TU32 == [t |-> "u32"]

TF32 == [t |-> "f32"]

TBool == [t |-> "bool"]

\* serde_json::Value: any JSON, kept as it is.
TValue == [t |-> "Value"]

\* A type of the mcp_protocol crate (Tool, ToolContent): not declared in
\* this repository; a JSON object carried verbatim.
TExternal(name) == [t |-> "External", name |-> name]

TOption(of) == [t |-> "Option", of |-> of]

TVec(of) == [t |-> "Vec", of |-> of]

\* key: the name on the wire (serde rename); name: the Rust field;
\* skip: #[serde(skip_serializing_if = "Option::is_none")].
Field(key, name, ty, skip) == [key |-> key, name |-> name, ty |-> ty, skip |-> skip]

TStruct(name, fields) == [t |-> "struct", name |-> name, fields |-> fields]

\* One variant of an enum: its name on the wire, its Rust name, its fields.
Variant(tag, name, fields) == [tag |-> tag, name |-> name, fields |-> fields]

\* #[serde(tag = "type")]
TTagged(name, variants) == [t |-> "tagged", name |-> name, variants |-> variants]

\* #[serde(untagged)]: arms are <<Rust name, type>>, tried in order.
TUntagged(name, arms) == [t |-> "untagged", name |-> name, arms |-> arms]

\* An enum of unit variants, written as the variant's name.
TUnitEnum(name, variants) == [t |-> "unit_enum", name |-> name, variants |-> variants]

(***************************************************************************)
(* Layer 2b: the declarations of messages.rs, field by field.              *)
(***************************************************************************)
CacheControl ==
    TStruct("CacheControl", << Field("type", "cache_type", TString, FALSE) >>)

\* Mutant of SystemMessage: cache_control without skip_serializing_if.
SystemMessage_NoSkip ==
    TStruct("SystemMessage",
        << Field("type", "message_type", TString, FALSE),
           Field("text", "text", TString, FALSE),
           Field("cache_control", "cache_control", TOption(CacheControl), FALSE) >>)

SystemMessage ==
    TStruct("SystemMessage",
        << Field("type", "message_type", TString, FALSE),
           Field("text", "text", TString, FALSE),
           Field("cache_control", "cache_control", TOption(CacheControl), TRUE) >>)

SystemMessageFormat ==
    TUntagged("SystemMessageFormat",
        << <<"String", TString>>, <<"Array", TVec(SystemMessage)>> >>)

ChunkedText ==
    TStruct("ChunkedText",
        << Field("type", "type", TString, FALSE),
           Field("text", "text", TString, FALSE) >>)

DocumentCitations ==
    TStruct("DocumentCitations", << Field("enabled", "enabled", TBool, FALSE) >>)

DocumentSource ==
    TTagged("DocumentSource",
        << Variant("text", "Text",
              << Field("media_type", "media_type", TString, FALSE),
                 Field("data", "data", TString, FALSE) >>),
           Variant("base64", "Base64",
              << Field("media_type", "media_type", TString, FALSE),
                 Field("data", "data", TString, FALSE) >>),
           Variant("content", "Custom",
              << Field("content", "content", TVec(ChunkedText), FALSE) >>),
           Variant("url", "Url",
              << Field("url", "url", TString, FALSE) >>) >>)

MessageContent ==
    TTagged("MessageContent",
        << Variant("text", "Text",
              << Field("text", "text", TString, FALSE) >>),
           Variant("tool_use", "ToolUse",
              << Field("id", "id", TString, FALSE),
                 Field("name", "name", TString, FALSE),
                 Field("input", "input", TValue, FALSE) >>),
           Variant("tool_result", "ToolResult",
              << Field("tool_use_id", "tool_use_id", TString, FALSE),
                 Field("content", "content", TVec(TExternal("ToolContent")), FALSE),
                 Field("is_error", "is_error", TOption(TBool), TRUE) >>),
           Variant("document", "Document",
              << Field("source", "source", DocumentSource, FALSE),
                 Field("title", "title", TOption(TString), TRUE),
                 Field("context", "context", TOption(TString), TRUE),
                 Field("citations", "citations", TOption(DocumentCitations), TRUE),
                 Field("cache_control", "cache_control", TOption(CacheControl), TRUE) >>) >>)

MessageContentFormat ==
    TUntagged("MessageContentFormat",
        << <<"String", TString>>, <<"Structured", TVec(MessageContent)>> >>)

Message ==
    TStruct("Message",
        << Field("role", "role", TString, FALSE),
           Field("content", "content", MessageContentFormat, FALSE) >>)

ToolChoice ==
    TTagged("ToolChoice",
        << Variant("auto", "Auto", << >>),
           Variant("tool", "Tool", << Field("name", "name", TString, FALSE) >>),
           Variant("any", "Any", << >>),
           Variant("none", "None", << >>) >>)

CompletionRequest ==
    TStruct("CompletionRequest",
        << Field("model", "model", TString, FALSE),
           Field("messages", "messages", TVec(Message), FALSE),
           Field("max_tokens", "max_tokens", TU32, FALSE),
           Field("temperature", "temperature", TOption(TF32), TRUE),
           Field("system", "system", TOption(SystemMessageFormat), TRUE),
           Field("tools", "tools", TOption(TVec(TExternal("Tool"))), TRUE),
           Field("tool_choice", "tool_choice", TOption(ToolChoice), TRUE),
           Field("disable_parallel_tool_use", "disable_parallel_tool_use",
                 TOption(TBool), TRUE) >>)

Usage ==
    TStruct("Usage",
        << Field("input_tokens", "input_tokens", TU32, FALSE),
           Field("output_tokens", "output_tokens", TU32, FALSE),
           Field("cache_read_input_tokens", "cache_read_input_tokens",
                 TOption(TU32), FALSE),
           Field("cache_creation_input_tokens", "cache_creation_input_tokens",
                 TOption(TU32), FALSE) >>)

StopReason ==
    TUnitEnum("StopReason",
        << <<"end_turn", "EndTurn">>, <<"max_tokens", "MaxTokens">>,
           <<"stop_sequence", "StopSequence">>, <<"tool_use", "ToolUse">> >>)

CompletionResponse ==
    TStruct("CompletionResponse",
        << Field("content", "content", TVec(MessageContent), FALSE),
           Field("id", "id", TString, FALSE),
           Field("model", "model", TString, FALSE),
           Field("role", "role", TString, FALSE),
           Field("stop_reason", "stop_reason", StopReason, FALSE),
           Field("stop_sequence", "stop_sequence", TOption(TString), FALSE),
           Field("type", "message_type", TString, FALSE),
           Field("usage", "usage", Usage, FALSE) >>)

\* The type a kind of payload is decoded as.
TypeOf(kind_) ==
    CASE kind_ = "MessageContent"      -> MessageContent
      [] kind_ = "DocumentSource"      -> DocumentSource
      [] kind_ = "SystemMessage"       -> SystemMessage
      [] kind_ = "Message"             -> Message
      [] kind_ = "CompletionRequest"   -> CompletionRequest
      [] kind_ = "CompletionResponse"  -> CompletionResponse
      [] kind_ = "Usage"               -> Usage

(***************************************************************************)
(* Layer 2c: what #[derive(Serialize)] generates.                          *)
(***************************************************************************)
\* The index of the variant with Rust name n / wire name tag (0: none).
VariantNamed(variants, n) ==
    LET S == {i \in 1..Len(variants) : variants[i].name = n}
    IN  IF S = {} THEN 0 ELSE Min(S)

\* Mutant of VariantTagged: an unknown tag falls back to the first variant
\* (a catch-all variant, #[serde(other)]).
VariantTagged_Fallback(variants, tag) ==
    LET S == {i \in 1..Len(variants) : variants[i].tag = tag}
    IN  IF S = {} THEN 1 ELSE Min(S)

VariantTagged(variants, tag) ==
    LET S == {i \in 1..Len(variants) : variants[i].tag = tag}
    IN  IF S = {} THEN 0 ELSE Min(S)

\* Mutant of IsWritten: the skip predicate inverted (Option::is_some).
IsWritten_SkipSome(f, v) == ~(f.skip /\ v[f.name] # None)

\* A field is written unless it is skip_serializing_if-none and None.
IsWritten(f, v) == ~(f.skip /\ v[f.name] = None)

RECURSIVE Serialize(_, _)

\* The entries a struct (or a struct variant) writes for its fields.
SerializeFields(fields, v) ==
    LET written == {i \in 1..Len(fields) : IsWritten(fields[i], v)}
        idx(key) == CHOOSE i \in written : fields[i].key = key
    IN  [key \in {fields[i].key : i \in written} |->
            Serialize(fields[idx(key)].ty, v[fields[idx(key)].name])]

Serialize(ty, v) ==
    CASE ty.t = "String"   -> JStr(v)
      [] ty.t = "u32"      -> JNum(v)
      [] ty.t = "f32"      -> JFloat(v)
      [] ty.t = "bool"     -> JBool(v)
      [] ty.t = "Value"    -> v
      [] ty.t = "External" -> v
      [] ty.t = "Option"   -> IF v.some THEN Serialize(ty.of, v.v) ELSE JNull
      [] ty.t = "Vec"      -> JArr([i \in 1..Len(v) |-> Serialize(ty.of, v[i])])
      [] ty.t = "struct"   -> JObj(SerializeFields(ty.fields, v))
      [] ty.t = "tagged"   ->
            LET var == ty.variants[VariantNamed(ty.variants, v.variant)]
            IN  JObj(("type" :> JStr(var.tag)) @@ SerializeFields(var.fields, v))
      [] ty.t = "untagged" ->
            LET arm == CHOOSE i \in 1..Len(ty.arms) : ty.arms[i][1] = v.arm
            IN  Serialize(ty.arms[arm][2], v[v.arm])
      [] ty.t = "unit_enum" ->
            LET i == CHOOSE i \in 1..Len(ty.variants) : ty.variants[i][2] = v
            IN  JStr(ty.variants[i][1])

(***************************************************************************)
(* Layer 2d: what #[derive(Deserialize)] generates.                        *)
(***************************************************************************)
\* Mutant of MissingField: an absent optional count is read as zero
\* (unwrap_or_default on the cache counts).
MissingField_ZeroCount(f) ==
    IF f.ty.t = "Option"
    THEN IF f.ty.of.t = "u32" THEN Ok(Some(0)) ELSE Ok(None)
    ELSE Err("missing_field", f.key)

\* Mutant of MissingField: #[serde(default)] on the fields, so that an
\* absent field takes its type's Default.
MissingField_Default(f) ==
    CASE f.ty.t = "Option" -> Ok(None)
      [] f.ty.t = "String" -> Ok("")
      [] f.ty.t = "u32"    -> Ok(0)
      [] f.ty.t = "Vec"    -> Ok(<< >>)
      [] OTHER             -> Err("missing_field", f.key)

\* A field whose key is absent: an Option becomes None, anything else is
\* the error missing field `key`.
MissingField(f) ==
    IF f.ty.t = "Option" THEN Ok(None) ELSE Err("missing_field", f.key)

RECURSIVE Deserialize(_, _)

\* Mutant of DeserializeFields: the entries no field takes are kept in an
\* open mapping on the record (#[serde(flatten)] additional_params).
DeserializeFields_KeepUnknown(fields, o) ==
    LET got == [i \in 1..Len(fields) |->
                  IF fields[i].key \in DOMAIN o
                  THEN Deserialize(fields[i].ty, o[fields[i].key])
                  ELSE MissingField(fields[i])]
        bad == {i \in 1..Len(fields) : ~got[i].ok}
        idx(n) == CHOOSE i \in 1..Len(fields) : fields[i].name = n
        rest == (DOMAIN o) \ {fields[i].key : i \in 1..Len(fields)}
        rec == [n \in {fields[i].name : i \in 1..Len(fields)} |-> got[idx(n)].v]
    IN  IF bad # {} THEN got[Min(bad)]
        ELSE IF rest = {} THEN Ok(rec)
        ELSE Ok(rec @@ ("additional_params" :> [x \in rest |-> o[x]]))

\* Mutant of DeserializeFields: #[serde(deny_unknown_fields)].
DeserializeFields_DenyUnknown(fields, o) ==
    LET got == [i \in 1..Len(fields) |->
                  IF fields[i].key \in DOMAIN o
                  THEN Deserialize(fields[i].ty, o[fields[i].key])
                  ELSE MissingField(fields[i])]
        bad == {i \in 1..Len(fields) : ~got[i].ok}
        idx(n) == CHOOSE i \in 1..Len(fields) : fields[i].name = n
    IN  IF (DOMAIN o) \ {fields[i].key : i \in 1..Len(fields)} # {}
          THEN Err("unknown_field", "")
        ELSE IF bad # {} THEN got[Min(bad)]
        ELSE Ok([n \in {fields[i].name : i \in 1..Len(fields)} |-> got[idx(n)].v])

\* The fields of a struct (or struct variant) read from the entries o of an
\* object.  Entries are read first (an entry of the wrong shape fails as it
\* is read), then the fields no entry gave are filled in or reported, in
\* declaration order.  An entry under a key no field has is skipped: no
\* declaration of the crate carries #[serde(deny_unknown_fields)].
DeserializeFields(fields, o) ==
    LET got     == [i \in 1..Len(fields) |->
                      IF fields[i].key \in DOMAIN o
                      THEN Deserialize(fields[i].ty, o[fields[i].key])
                      ELSE MissingField(fields[i])]
        badRead == {i \in 1..Len(fields) : fields[i].key \in DOMAIN o /\ ~got[i].ok}
        badMiss == {i \in 1..Len(fields) : fields[i].key \notin DOMAIN o /\ ~got[i].ok}
        idx(n)  == CHOOSE i \in 1..Len(fields) : fields[i].name = n
    IN  IF badRead # {} THEN got[Min(badRead)]
        ELSE IF badMiss # {} THEN got[Min(badMiss)]
        ELSE Ok([n \in {fields[i].name : i \in 1..Len(fields)} |-> got[idx(n)].v])

\* Mutant of TryArms: a bare string read as message content is wrapped
\* into the block list holding one Text block.
TryArms_Normalizing(ty, j, i) ==
    LET fit == {n \in i..Len(ty.arms) : Deserialize(ty.arms[n][2], j).ok}
    IN  IF fit = {} THEN Err("no_variant_matched", ty.name)
        ELSE LET n == Min(fit)
                 r == Deserialize(ty.arms[n][2], j)
             IN  IF ty.name = "MessageContentFormat" /\ ty.arms[n][1] = "String"
                 THEN Ok([arm |-> "Structured",
                          Structured |-> << [variant |-> "Text", text |-> r.v] >>])
                 ELSE Ok(("arm" :> ty.arms[n][1]) @@ (ty.arms[n][1] :> r.v))

\* The arms of an untagged enum from arm i on: the first that reads wins.
RECURSIVE TryArms(_, _, _)
TryArms(ty, j, i) ==
    IF i > Len(ty.arms) THEN Err("no_variant_matched", ty.name)
    ELSE LET r == Deserialize(ty.arms[i][2], j)
         IN  IF r.ok
             THEN Ok(("arm" :> ty.arms[i][1]) @@ (ty.arms[i][1] :> r.v))
             ELSE TryArms(ty, j, i + 1)

Deserialize(ty, j) ==
    CASE ty.t = "String" ->
            IF j.k = "string" THEN Ok(j.s) ELSE Err("invalid_type", "String")
      [] ty.t = "u32" ->
            IF j.k # "number" THEN Err("invalid_type", "u32")
            ELSE IF j.n < 0 THEN Err("invalid_value", "u32")
            ELSE Ok(j.n)
      [] ty.t = "f32" ->
            IF j.k = "float" THEN Ok(j.t)
            ELSE IF j.k = "number" THEN Ok(10 * j.n)
            ELSE Err("invalid_type", "f32")
      [] ty.t = "bool" ->
            IF j.k = "bool" THEN Ok(j.b) ELSE Err("invalid_type", "bool")
      [] ty.t = "Value" -> Ok(j)
      [] ty.t = "External" ->
            IF j.k = "object" THEN Ok(j) ELSE Err("invalid_type", ty.name)
      [] ty.t = "Option" ->
            IF j.k = "null" THEN Ok(None)
            ELSE LET r == Deserialize(ty.of, j)
                 IN  IF r.ok THEN Ok(Some(r.v)) ELSE r
      [] ty.t = "Vec" ->
            IF j.k # "array" THEN Err("invalid_type", "Vec")
            ELSE LET got == [i \in 1..Len(j.a) |-> Deserialize(ty.of, j.a[i])]
                     bad == {i \in 1..Len(j.a) : ~got[i].ok}
                 IN  IF bad # {} THEN got[Min(bad)]
                     ELSE Ok([i \in 1..Len(j.a) |-> got[i].v])
      [] ty.t = "struct" ->
            IF j.k # "object" THEN Err("invalid_type", ty.name)
            ELSE DeserializeFields(ty.fields, j.o)
      [] ty.t = "tagged" ->
            IF j.k # "object" THEN Err("invalid_type", ty.name)
            ELSE IF "type" \notin DOMAIN j.o THEN Err("missing_field", "type")
            ELSE IF j.o["type"].k # "string" THEN Err("invalid_type", "variant identifier")
            ELSE LET i == VariantTagged(ty.variants, j.o["type"].s)
                 IN  IF i = 0 THEN Err("unknown_variant", j.o["type"].s)
                     ELSE LET r == DeserializeFields(ty.variants[i].fields,
                                                     Without(j.o, "type"))
                          IN  IF r.ok
                              THEN Ok(("variant" :> ty.variants[i].name) @@ r.v)
                              ELSE r
      [] ty.t = "untagged" -> TryArms(ty, j, 1)
      [] ty.t = "unit_enum" ->
            IF j.k # "string" THEN Err("invalid_type", ty.name)
            ELSE LET S == {i \in 1..Len(ty.variants) : ty.variants[i][1] = j.s}
                 IN  IF S = {} THEN Err("unknown_variant", j.s)
                     ELSE Ok(ty.variants[Min(S)][2])

(***************************************************************************)
(* The values a caller can build, within the bounds.  Strings are those of *)
(* the crate's tests.                                                      *)
(***************************************************************************)
OptionOf(S) == {None} \cup {Some(x) : x \in S}

SeqsUpTo(S, n) == UNION {[1..m -> S] : m \in 0..n}

CacheControlValues == {[cache_type |-> "ephemeral"]}

ChunkedTextValues == {[type |-> "text", text |-> "First chunk"]}

DocumentCitationsValues == {[enabled |-> b] : b \in BOOLEAN}

DocumentSourceValues ==
    {[variant |-> "Text", media_type |-> "text/plain", data |-> "Plain text content..."],
     [variant |-> "Base64", media_type |-> "application/pdf",
      data |-> "base64-encoded-pdf-content"],
     [variant |-> "Url", url |-> "https://example.com/doc.pdf"]}
    \cup {[variant |-> "Custom", content |-> c] : c \in SeqsUpTo(ChunkedTextValues, MaxLen)}

\* serde_json::Value inputs of a tool call.
InputValues ==
    {JNull, JStr("2+2"), JObj([expression |-> JStr("2+2")]), JObj(EmptyMap)}

\* Items of the external type ToolContent.
ToolContentValues == {JObj([type |-> JStr("text"), text |-> JStr("4")])}

TextValues == {[variant |-> "Text", text |-> s] : s \in {"hi", ""}}

ToolUseValues ==
    {[variant |-> "ToolUse", id |-> "toolu_1", name |-> "calculator", input |-> i] :
        i \in InputValues}

ToolResultValues ==
    {[variant |-> "ToolResult", tool_use_id |-> "toolu_1", content |-> c, is_error |-> e] :
        c \in SeqsUpTo(ToolContentValues, MaxLen), e \in OptionOf(BOOLEAN)}

DocumentValues ==
    {[variant |-> "Document", source |-> s, title |-> ti, context |-> cx,
      citations |-> ci, cache_control |-> cc] :
        s \in DocumentSourceValues,
        ti \in OptionOf({"Document Title"}),
        cx \in OptionOf({"Context about the document"}),
        ci \in OptionOf(DocumentCitationsValues),
        cc \in OptionOf(CacheControlValues)}

MessageContentValues ==
    TextValues \cup ToolUseValues \cup ToolResultValues \cup DocumentValues

SystemMessageValues ==
    {[message_type |-> "text", text |-> "You are an AI assistant", cache_control |-> cc] :
        cc \in OptionOf(CacheControlValues)}

UsageValues ==
    {[input_tokens |-> 10, output_tokens |-> 25,
      cache_read_input_tokens |-> r, cache_creation_input_tokens |-> c] :
        r \in OptionOf({0, 5}), c \in OptionOf({0})}

\* A block of each variant, for the records that hold blocks.
SampleBlocks ==
    << [variant |-> "Text", text |-> "hi"],
       [variant |-> "ToolUse", id |-> "toolu_1", name |-> "calculator",
        input |-> JObj([expression |-> JStr("2+2")])],
       [variant |-> "ToolResult", tool_use_id |-> "toolu_1",
        content |-> << JObj([type |-> JStr("text"), text |-> JStr("4")]) >>,
        is_error |-> None],
       [variant |-> "Document",
        source |-> [variant |-> "Url", url |-> "https://example.com/doc.pdf"],
        title |-> Some("Document Title"), context |-> None,
        citations |-> Some([enabled |-> TRUE]), cache_control |-> None] >>

\* Mutant of new_structured: a lone Text block is collapsed to the bare
\* string form.
new_structured_Collapse(role, content) ==
    IF Len(content) = 1 /\ content[1].variant = "Text"
    THEN [role |-> role, content |-> [arm |-> "String", String |-> content[1].text]]
    ELSE [role |-> role, content |-> [arm |-> "Structured", Structured |-> content]]

\* Message::new_structured: role.into() and the blocks as they are, under
\* MessageContentFormat::Structured.
new_structured(role, content) ==
    [role |-> role, content |-> [arm |-> "Structured", Structured |-> content]]

\* The roles a caller may pass: the conventional ones, the empty string and
\* one the convention does not know.
Roles == {"user", "assistant", "", "tool"}

\* The block sequences a caller may pass, the empty one included.
BlockLists == SeqsUpTo({SampleBlocks[i] : i \in 1..Len(SampleBlocks)}, MaxBlocks)

MessageValues ==
    {[role |-> "user", content |-> [arm |-> "String", String |-> "hi"]]}
    \cup {[role |-> "user", content |-> [arm |-> "Structured", Structured |-> << >>]]}
    \cup {[role |-> "user",
           content |-> [arm |-> "Structured", Structured |-> << SampleBlocks[i] >>]] :
             i \in 1..Len(SampleBlocks)}

SystemValues ==
    {[arm |-> "String", String |-> "You are an AI assistant"]}
    \cup {[arm |-> "Array", Array |-> s] : s \in SeqsUpTo(SystemMessageValues, 1)}

CompletionRequestValues ==
    {[model |-> "claude-3-7-sonnet-20250219",
      messages |-> << [role |-> "user", content |-> [arm |-> "String", String |-> "hi"]] >>,
      max_tokens |-> 1024, temperature |-> te, system |-> sy, tools |-> None,
      tool_choice |-> tc, disable_parallel_tool_use |-> None] :
        te \in OptionOf({7}), sy \in OptionOf(SystemValues),
        tc \in OptionOf({[variant |-> "Auto"], [variant |-> "Tool", name |-> "calculator"]})}

CompletionResponseValues ==
    {[content |-> << SampleBlocks[1] >>, id |-> "msg_1",
      model |-> "claude-3-7-sonnet-20250219", role |-> "assistant",
      stop_reason |-> sr, stop_sequence |-> ss, message_type |-> "message", usage |-> u] :
        sr \in {"EndTurn", "MaxTokens", "StopSequence", "ToolUse"},
        ss \in OptionOf({"END"}), u \in UsageValues}

ValuesOf(kind_) ==
    CASE kind_ = "MessageContent"      -> MessageContentValues
      [] kind_ = "DocumentSource"      -> DocumentSourceValues
      [] kind_ = "SystemMessage"       -> SystemMessageValues
      [] kind_ = "Message"             -> MessageValues
      [] kind_ = "CompletionRequest"   -> CompletionRequestValues
      [] kind_ = "CompletionResponse"  -> CompletionResponseValues
      [] kind_ = "Usage"               -> UsageValues

Kinds ==
    {"MessageContent", "DocumentSource", "SystemMessage", "Message",
     "CompletionRequest", "CompletionResponse", "Usage"}

(***************************************************************************)
(* The payloads a transport can deliver: those of the crate's tests and of *)
(* the API's documented shapes, each valid for its kind.                   *)
(***************************************************************************)
TextBlockJ(s) == JObj([type |-> JStr("text"), text |-> JStr(s)])

ToolUseJ ==
    JObj([type |-> JStr("tool_use"), id |-> JStr("toolu_1"), name |-> JStr("calculator"),
          input |-> JObj([expression |-> JStr("2+2")])])

ToolResultJ ==
    JObj([type |-> JStr("tool_result"), tool_use_id |-> JStr("toolu_1"),
          content |-> JArr(<< JObj([type |-> JStr("text"), text |-> JStr("4")]) >>),
          is_error |-> JBool(FALSE)])

SourceTextJ ==
    JObj([type |-> JStr("text"), media_type |-> JStr("text/plain"),
          data |-> JStr("Plain text content...")])

SourceBase64J ==
    JObj([type |-> JStr("base64"), media_type |-> JStr("application/pdf"),
          data |-> JStr("base64-encoded-pdf-content")])

SourceCustomJ ==
    JObj([type |-> JStr("content"),
          content |-> JArr(<< JObj([type |-> JStr("text"), text |-> JStr("First chunk")]),
                              JObj([type |-> JStr("text"), text |-> JStr("Second chunk")]) >>)])

SourceUrlJ == JObj([type |-> JStr("url"), url |-> JStr("https://example.com/doc.pdf")])

SourcePayloads == {SourceTextJ, SourceBase64J, SourceCustomJ, SourceUrlJ}

\* tests::test_deserialize_message_content_with_document_source_*
DocumentJ(source) ==
    JObj([type |-> JStr("document"), source |-> source,
          title |-> JStr("Document Title"),
          context |-> JStr("Context about the document that will not be cited from"),
          citations |-> JObj([enabled |-> JBool(TRUE)])])

DocumentCachedJ ==
    JObj([type |-> JStr("document"), source |-> SourceUrlJ,
          cache_control |-> JObj([type |-> JStr("ephemeral")])])

BlockPayloads ==
    {TextBlockJ("hi"), ToolUseJ, ToolResultJ, DocumentCachedJ}
    \cup {DocumentJ(s) : s \in SourcePayloads}

SegmentJ(text) == JObj([type |-> JStr("text"), text |-> JStr(text)])

SegmentCachedJ(text) ==
    JObj([type |-> JStr("text"), text |-> JStr(text),
          cache_control |-> JObj([type |-> JStr("ephemeral")])])

SegmentPayloads == {SegmentJ("A"), SegmentCachedJ("B")}

MessagePayloads ==
    {JObj([role |-> JStr("user"), content |-> JStr("hi")]),
     JObj([role |-> JStr("user"), content |-> JArr(<< TextBlockJ("hi") >>)]),
     JObj([role |-> JStr("user"), content |-> JArr(<< DocumentJ(SourceTextJ), TextBlockJ("hi") >>)]),
     JObj([role |-> JStr("assistant"), content |-> JArr(<< ToolUseJ >>)])}

\* The smallest valid request: every required field and nothing else.
MinimalRequestJ ==
    JObj([model |-> JStr("claude-3-7-sonnet-20250219"), max_tokens |-> JNum(1024),
          messages |-> JArr(<< JObj([role |-> JStr("user"), content |-> JStr("hi")]) >>)])

\* The system prompts a request is sent with: a bare string t, the array of
\* the one segment with text t (with and without cache control), and the
\* two segments of tests::test_deserialize_completion_request_with_system_messages.
SystemText == "A"

SystemPayloads ==
    {JStr(SystemText),
     JArr(<< SegmentJ(SystemText) >>),
     JArr(<< SegmentCachedJ(SystemText) >>),
     JArr(<< SegmentJ("A"), SegmentCachedJ("B") >>)}

RequestPayloads ==
    {MinimalRequestJ}
    \cup {JObj(MinimalRequestJ.o @@ [system |-> s]) : s \in SystemPayloads}
    \cup {JObj([model |-> JStr("claude-3-7-sonnet-20250219"), max_tokens |-> JNum(1024),
                temperature |-> JFloat(7),
                tool_choice |-> JObj([type |-> JStr("auto")]),
                messages |-> JArr(<< JObj([role |-> JStr("user"),
                      content |-> JArr(<< DocumentJ(SourceTextJ), TextBlockJ("hi") >>)]) >>)])}

UsageJ == JObj([input_tokens |-> JNum(10), output_tokens |-> JNum(25)])

UsageCacheJ ==
    JObj([input_tokens |-> JNum(10), output_tokens |-> JNum(25),
          cache_read_input_tokens |-> JNum(0), cache_creation_input_tokens |-> JNum(5)])

UsagePayloads == {UsageJ, UsageCacheJ}

StopReasonTags == {"end_turn", "max_tokens", "stop_sequence", "tool_use"}

ResponsePayloads ==
    {JObj([content |-> JArr(<< TextBlockJ("hi") >>), id |-> JStr("msg_1"),
           model |-> JStr("claude-3-7-sonnet-20250219"), role |-> JStr("assistant"),
           stop_reason |-> JStr(sr), stop_sequence |-> JNull, type |-> JStr("message"),
           usage |-> u]) : sr \in StopReasonTags, u \in UsagePayloads}

PayloadsOf(kind_) ==
    CASE kind_ = "MessageContent"      -> BlockPayloads
      [] kind_ = "DocumentSource"      -> SourcePayloads
      [] kind_ = "SystemMessage"       -> SegmentPayloads
      [] kind_ = "Message"             -> MessagePayloads
      [] kind_ = "CompletionRequest"   -> RequestPayloads
      [] kind_ = "CompletionResponse"  -> ResponsePayloads
      [] kind_ = "Usage"               -> UsagePayloads

(***************************************************************************)
(* Places in a payload: the path from the top to a JSON object that the    *)
(* schema reads as a record (a struct or a tagged variant).  The inside of *)
(* a serde_json::Value or of an external type is data, not schema.         *)
(***************************************************************************)
AtKey(key) == [key |-> key]

AtIdx(i) == [idx |-> i]

RECURSIVE Places(_, _)

PlacesUnder(fields, o) ==
    UNION {{<<AtKey(fields[i].key)>> \o p : p \in Places(fields[i].ty, o[fields[i].key])} :
              i \in {n \in 1..Len(fields) : fields[n].key \in DOMAIN o}}

Places(ty, j) ==
    CASE ty.t = "Option" -> IF j.k = "null" THEN {} ELSE Places(ty.of, j)
      [] ty.t = "Vec" ->
            IF j.k # "array" THEN {}
            ELSE UNION {{<<AtIdx(i)>> \o p : p \in Places(ty.of, j.a[i])} : i \in 1..Len(j.a)}
      [] ty.t = "struct" ->
            IF j.k # "object" THEN {} ELSE {<< >>} \cup PlacesUnder(ty.fields, j.o)
      [] ty.t = "tagged" ->
            IF j.k # "object" THEN {}
            ELSE IF "type" \notin DOMAIN j.o \/ j.o["type"].k # "string" THEN {<< >>}
            ELSE LET i == VariantTagged(ty.variants, j.o["type"].s)
                 IN  IF i = 0 THEN {<< >>}
                     ELSE {<< >>} \cup PlacesUnder(ty.variants[i].fields, j.o)
      [] ty.t = "untagged" ->
            UNION {Places(ty.arms[i][2], j) : i \in 1..Len(ty.arms)}
      [] OTHER -> {}

RECURSIVE JAt(_, _)
JAt(j, path) ==
    IF path = << >> THEN j
    ELSE IF "key" \in DOMAIN path[1] THEN JAt(j.o[path[1].key], Tail(path))
    ELSE JAt(j.a[path[1].idx], Tail(path))

RECURSIVE JWith(_, _, _)
JWith(j, path, new) ==
    IF path = << >> THEN new
    ELSE IF "key" \in DOMAIN path[1]
         THEN JObj([j.o EXCEPT ![path[1].key] = JWith(@, Tail(path), new)])
    ELSE JArr([j.a EXCEPT ![path[1].idx] = JWith(@, Tail(path), new)])

\* Whether key occurs in an object of j at any depth.
RECURSIVE HasKey(_, _)
HasKey(j, key) ==
    CASE j.k = "object" -> key \in DOMAIN j.o \/ \E x \in DOMAIN j.o : HasKey(j.o[x], key)
      [] j.k = "array"  -> \E i \in 1..Len(j.a) : HasKey(j.a[i], key)
      [] OTHER -> FALSE

(***************************************************************************)
(* models.rs: the capability table.  Prices are in hundredths of a dollar  *)
(* per million tokens (3.00 is 300).                                       *)
(***************************************************************************)
Pricing(input, output) ==
    [input_cost_per_million_tokens |-> input, output_cost_per_million_tokens |-> output]

\* Mutant of get_max_tokens: the identifier is lower-cased before the match.
get_max_tokens_IgnoreCase(model_id) ==
    IF model_id \in {"claude-3-7-sonnet-20250219", "CLAUDE-3-7-SONNET-20250219",
                     "Claude-3-7-Sonnet-20250219",
                     "claude-3-5-sonnet-20241022", "claude-3-5-haiku-20241022",
                     "claude-3-5-sonnet-20240620", "claude-3-opus-20240229",
                     "claude-3-sonnet-20240229", "claude-3-haiku-20240307"}
    THEN 200000 ELSE 100000

get_max_tokens(model_id) ==
    CASE model_id = "claude-3-7-sonnet-20250219" -> 200000
      [] model_id \in {"claude-3-5-sonnet-20241022", "claude-3-5-haiku-20241022",
                       "claude-3-5-sonnet-20240620"} -> 200000
      [] model_id = "claude-3-opus-20240229" -> 200000
      [] model_id = "claude-3-sonnet-20240229" -> 200000
      [] model_id = "claude-3-haiku-20240307" -> 200000
      [] model_id \in {"claude-2.1", "claude-2.0"} -> 100000
      [] OTHER -> 100000

get_pricing(model_id) ==
    CASE model_id = "claude-3-7-sonnet-20250219" -> Pricing(300, 1500)
      [] model_id \in {"claude-3-5-sonnet-20241022", "claude-3-5-sonnet-20240620"} ->
            Pricing(300, 1500)
      [] model_id = "claude-3-5-haiku-20241022" -> Pricing(80, 400)
      [] model_id = "claude-3-opus-20240229" -> Pricing(1500, 7500)
      [] model_id = "claude-3-haiku-20240307" -> Pricing(25, 125)
      [] model_id = "claude-3-sonnet-20240229" -> Pricing(300, 1500)
      [] OTHER -> Pricing(800, 2400)

\* The identifiers the match arms of get_max_tokens / get_pricing name.
MaxTokensTable ==
    {"claude-3-7-sonnet-20250219", "claude-3-5-sonnet-20241022",
     "claude-3-5-haiku-20241022", "claude-3-5-sonnet-20240620",
     "claude-3-opus-20240229", "claude-3-sonnet-20240229",
     "claude-3-haiku-20240307", "claude-2.1", "claude-2.0"}

PricingTable == MaxTokensTable \ {"claude-2.1", "claude-2.0"}

\* Identifiers a caller may ask about that no arm names: an unrelated one,
\* the empty string, and for listed ids a strict prefix, an extension and a
\* change of case.
UnlistedIds ==
    {"nonexistent-model-id", "",
     "claude-3-7-sonnet", "claude-3-7-sonnet-2025021", "claude-3-7-sonnet-20250219-v2",
     "CLAUDE-3-7-SONNET-20250219", "Claude-3-7-Sonnet-20250219",
     "claude-3-opus", "claude-3-opus-20240229 ", "claude-3-5-haiku-latest",
     "claude-2", "claude-2.1.0", "Claude-2.1"}

ModelIds == MaxTokensTable \cup UnlistedIds

(***************************************************************************)
(* Layer 3: the state machine.                                             *)
(*   pc      where the exchange stands                                     *)
(*   kind    the type handled (or the lookup called)                       *)
(*   src     "built": a caller's value is on its way out;                  *)
(*           "received": a payload came in                                 *)
(*   value   the value the caller built (the argument of a lookup)         *)
(*   sent    the payload as its sender's schema wrote it                   *)
(*   wire    the payload as it stands: delivered, or last serialized       *)
(*   damage  how wire differs from sent                                    *)
(*   result  what the last Deserialize (or lookup) returned                *)
(*   call    the constructor call the value came from, with its arguments  *)
(***************************************************************************)
Nil == [nil |-> TRUE]

NoDamage == [op |-> "none"]

NoCall == [fn |-> "none"]

\* The entries a peer on a later schema generation adds.
ExtraFields ==
    [future_field |-> JStr("v"), additional_params |-> JObj([top_k |-> JNum(5)])]

ExtraKeys == DOMAIN ExtraFields

Init ==
    /\ pc = "idle"
    /\ kind = "none"
    /\ src = "none"
    /\ value = Nil
    /\ sent = Nil
    /\ wire = Nil
    /\ damage = NoDamage
    /\ result = Nil
    /\ call = NoCall

\* A caller builds a value of one of the crate's types.
Build ==
    /\ pc = "idle"
    /\ \E k \in Kinds : \E v \in ValuesOf(k) :
          /\ kind' = k
          /\ value' = v
    /\ pc' = "built"
    /\ src' = "built"
    /\ UNCHANGED <<call, sent, wire, damage, result>>

\* A caller makes a message of a role and blocks it already holds.
NewStructured ==
    /\ pc = "idle"
    /\ \E role \in Roles : \E content \in BlockLists :
          /\ call' = [fn |-> "new_structured", role |-> role, content |-> content]
          /\ value' = new_structured(role, content)
    /\ kind' = "Message"
    /\ pc' = "built"
    /\ src' = "built"
    /\ UNCHANGED <<sent, wire, damage, result>>

\* The transport hands over a payload.
Receive ==
    /\ pc = "idle"
    /\ \E k \in Kinds : \E j \in PayloadsOf(k) :
          /\ kind' = k
          /\ sent' = j
          /\ wire' = j
    /\ pc' = "received"
    /\ src' = "received"
    /\ UNCHANGED <<call, value, damage, result>>

\* The sender's schema has a field this one does not know.
AddUnknownField ==
    /\ pc = "received" /\ damage = NoDamage
    /\ \E p \in Places(TypeOf(kind), wire) : \E x \in ExtraKeys :
          /\ wire' = JWith(wire, p, JObj(JAt(wire, p).o @@ (x :> ExtraFields[x])))
          /\ damage' = [op |-> "add", at |-> p, key |-> x]
    /\ UNCHANGED <<call, pc, kind, src, value, sent, result>>

\* The sender's schema lacks a field, or leaves it out.
DropField ==
    /\ pc = "received" /\ damage = NoDamage
    /\ \E p \in Places(TypeOf(kind), wire) : \E x \in DOMAIN JAt(wire, p).o :
          /\ wire' = JWith(wire, p, JObj(Without(JAt(wire, p).o, x)))
          /\ damage' = [op |-> "drop", at |-> p, key |-> x]
    /\ UNCHANGED <<call, pc, kind, src, value, sent, result>>

\* The sender writes null for a field.
NullField ==
    /\ pc = "received" /\ damage = NoDamage
    /\ \E p \in Places(TypeOf(kind), wire) : \E x \in DOMAIN JAt(wire, p).o :
          /\ JAt(wire, p).o[x] # JNull
          /\ wire' = JWith(wire, p, JObj([JAt(wire, p).o EXCEPT ![x] = JNull]))
          /\ damage' = [op |-> "null", at |-> p, key |-> x]
    /\ UNCHANGED <<call, pc, kind, src, value, sent, result>>

\* The sender's schema has a variant this one does not know.
Retag ==
    /\ pc = "received" /\ damage = NoDamage
    /\ \E p \in Places(TypeOf(kind), wire) :
          /\ "type" \in DOMAIN JAt(wire, p).o
          /\ wire' = JWith(wire, p, JObj([JAt(wire, p).o EXCEPT !["type"] = JStr("unknown_kind")]))
          /\ damage' = [op |-> "retag", at |-> p, key |-> "type"]
    /\ UNCHANGED <<call, pc, kind, src, value, sent, result>>

\* What a sender may write where a count is expected: a negative integer, a
\* number with a fraction (10.5), a string.
BadCounts == {JNum(-1), JFloat(105), JStr("10")}

\* The sender writes something that is no non-negative integer for a count.
MistypeField ==
    /\ pc = "received" /\ damage = NoDamage
    /\ \E p \in Places(TypeOf(kind), wire) : \E x \in DOMAIN JAt(wire, p).o :
          /\ JAt(wire, p).o[x].k = "number"
          /\ \E bad \in BadCounts :
                wire' = JWith(wire, p, JObj([JAt(wire, p).o EXCEPT ![x] = bad]))
          /\ damage' = [op |-> "mistype", at |-> p, key |-> x]
    /\ UNCHANGED <<call, pc, kind, src, value, sent, result>>

\* serde_json::to_value: of the caller's value, or of the value last decoded.
Encode ==
    /\ \/ pc = "built"
       \/ pc = "decoded" /\ src = "received" /\ result.ok
    /\ wire' = Serialize(TypeOf(kind), IF src = "built" THEN value ELSE result.v)
    /\ pc' = "encoded"
    /\ UNCHANGED <<call, kind, src, value, sent, damage, result>>

\* serde_json::from_value of the payload as it stands.
Decode ==
    /\ pc \in {"received", "encoded"}
    /\ result' = Deserialize(TypeOf(kind), wire)
    /\ pc' = "decoded"
    /\ UNCHANGED <<call, kind, src, value, sent, wire, damage>>

GetMaxTokens ==
    /\ pc = "idle"
    /\ \E id \in ModelIds :
          /\ value' = id
          /\ result' = get_max_tokens(id)
    /\ kind' = "get_max_tokens"
    /\ pc' = "looked_up"
    /\ UNCHANGED <<call, src, sent, wire, damage>>

GetPricing ==
    /\ pc = "idle"
    /\ \E id \in ModelIds :
          /\ value' = id
          /\ result' = get_pricing(id)
    /\ kind' = "get_pricing"
    /\ pc' = "looked_up"
    /\ UNCHANGED <<call, src, sent, wire, damage>>

\* The exchange is over; the next one starts afresh.
Done ==
    /\ pc \in {"decoded", "encoded", "looked_up"}
    /\ pc' = "idle"
    /\ kind' = "none"
    /\ src' = "none"
    /\ value' = Nil
    /\ sent' = Nil
    /\ wire' = Nil
    /\ damage' = NoDamage
    /\ result' = Nil
    /\ call' = NoCall

Next ==
    \/ Build
    \/ NewStructured
    \/ Receive
    \/ AddUnknownField
    \/ DropField
    \/ NullField
    \/ Retag
    \/ MistypeField
    \/ Encode
    \/ Decode
    \/ GetMaxTokens
    \/ GetPricing
    \/ Done

Spec == Init /\ [][Next]_vars

(***************************************************************************)
(* Properties.                                                             *)
(***************************************************************************)
\* Every payload the transport delivers undamaged is valid for its kind.
PayloadsValid ==
    (pc = "decoded" /\ src = "received" /\ damage = NoDamage) => result.ok

\* A caller's value has come back from the wire.
RoundTripped(kind_) == pc = "decoded" /\ src = "built" /\ kind = kind_

\* A delivered payload of kind_ has been decoded.
Decoded(kind_) == pc = "decoded" /\ src = "received" /\ kind = kind_

\* The payload was changed by op at the place at.
Damaged(op, at) == damage.op = op /\ damage.at = at

\* C1: for every content block a caller can build (the four variants, a
\* Document with each of the four sources, every optional field present or
\* absent), Serialize then Deserialize succeeds with the block it started
\* from.
C1_RoundTrip ==
    RoundTripped("MessageContent") => result = Ok(value)

\* C1 happens: a Document with a Custom source, some optional fields present
\* and some absent, has gone out and come back.
C1_Witness ==
    /\ RoundTripped("MessageContent")
    /\ value.variant = "Document"
    /\ value.source.variant = "Custom"
    /\ Len(value.source.content) > 0
    /\ value.title = None
    /\ value.citations # None
    /\ result.ok

\* C2 as stated: a message whose content is the bare string s decodes to
\* the block list holding the one Text block with text s.
C2_BareStringBecomesTextBlock ==
    (Decoded("Message") /\ damage = NoDamage /\ wire.o["content"].k = "string") =>
        /\ result.ok
        /\ result.v.content =
              [arm |-> "Structured",
               Structured |-> << [variant |-> "Text", text |-> wire.o["content"].s] >>]

\* C2 amended: a message whose content is the bare string s decodes to the
\* String arm holding s, one whose content is an array decodes to the
\* Structured arm with one block per element; the in-memory content is one
\* of two shapes, and "hi" and [{type:text,text:"hi"}] decode to different
\* values.
C2_BareStringStaysString ==
    (Decoded("Message") /\ damage = NoDamage) =>
        /\ result.ok
        /\ wire.o["content"].k = "string" =>
              /\ result.v.content = [arm |-> "String", String |-> wire.o["content"].s]
              /\ result.v.content #
                    Deserialize(MessageContentFormat,
                                JArr(<< TextBlockJ(wire.o["content"].s) >>)).v
        /\ wire.o["content"].k = "array" =>
              /\ result.v.content.arm = "Structured"
              /\ Len(result.v.content.Structured) = Len(wire.o["content"].a)

\* C2 happens: the message {role: user, content: "hi"} has been decoded.
C2_Witness ==
    /\ Decoded("Message") /\ damage = NoDamage
    /\ wire.o["content"] = JStr("hi")
    /\ result.ok
    /\ result.v.content.arm = "String"

\* C3 as stated: a response whose stop_reason is null or absent decodes,
\* with the absent value for its stop reason, and one of the four tokens
\* decodes to its variant.
C3_NullStopReasonDecodes ==
    /\ (Decoded("CompletionResponse") /\ damage.op \in {"drop", "null"}
            /\ damage.at = << >> /\ damage.key = "stop_reason") =>
          (result.ok /\ result.v.stop_reason = None)
    /\ (Decoded("CompletionResponse") /\ damage = NoDamage) =>
          /\ result.ok
          /\ result.v.stop_reason =
                CASE wire.o["stop_reason"].s = "end_turn"      -> "EndTurn"
                  [] wire.o["stop_reason"].s = "max_tokens"    -> "MaxTokens"
                  [] wire.o["stop_reason"].s = "stop_sequence" -> "StopSequence"
                  [] wire.o["stop_reason"].s = "tool_use"      -> "ToolUse"

\* The top-level fields a request cannot be decoded without.
RequestRequired == {"model", "messages", "max_tokens"}

\* C4: a request payload with one of model, messages, max_tokens removed
\* (and everything else in place) fails to decode, with the error
\* missing field naming the removed field; no request is produced.
C4_MissingRequiredField ==
    (Decoded("CompletionRequest") /\ Damaged("drop", << >>)
        /\ damage.key \in RequestRequired) =>
            result = Err("missing_field", damage.key)

\* C4 happens: the minimal request without max_tokens has been decoded.
C4_Witness ==
    /\ Decoded("CompletionRequest") /\ Damaged("drop", << >>)
    /\ sent = MinimalRequestJ
    /\ damage.key = "max_tokens"
    /\ ~result.ok

\* A decoded payload of kind_ has been serialized again.
Reencoded(kind_) == pc = "encoded" /\ src = "received" /\ kind = kind_

\* The fields of the declaration of CompletionRequest.
RequestFieldNames ==
    {"model", "messages", "max_tokens", "temperature", "system", "tools",
     "tool_choice", "disable_parallel_tool_use"}

\* C5 as stated: a top-level field of a request that the model does not
\* know is kept by decode, so that decode then encode writes it again
\* with its value.
C5_UnknownTopLevelKept ==
    (Reencoded("CompletionRequest") /\ Damaged("add", << >>)) =>
        /\ damage.key \in DOMAIN wire.o
        /\ wire.o[damage.key] = ExtraFields[damage.key]

\* C5 amended: a request with a top-level field the model does not know
\* decodes, the decoded request holds its eight declared fields and no
\* open mapping, and decode then encode writes a payload without that
\* field.
C5_UnknownTopLevelDropped ==
    /\ (Decoded("CompletionRequest") /\ Damaged("add", << >>)) =>
          /\ result.ok
          /\ DOMAIN result.v = RequestFieldNames
    /\ (Reencoded("CompletionRequest") /\ Damaged("add", << >>)) =>
          damage.key \notin DOMAIN wire.o

\* C5 happens: a request sent with additional_params has been decoded and
\* encoded again.
C5_Witness ==
    /\ Reencoded("CompletionRequest") /\ Damaged("add", << >>)
    /\ damage.key = "additional_params"
    /\ "additional_params" \notin DOMAIN wire.o

\* C6: a valid payload of any kind with one more, unknown field in any of
\* its records decodes to the value the payload decodes to without it,
\* and that value is encoded without the field, at any depth.
C6_UnknownFieldIgnored ==
    /\ (pc = "decoded" /\ src = "received" /\ damage.op = "add") =>
          /\ result.ok
          /\ result = Deserialize(TypeOf(kind), sent)
    /\ (pc = "encoded" /\ src = "received" /\ damage.op = "add") =>
          ~HasKey(wire, damage.key)

\* C6 happens: a request with an unknown field in the source of a document
\* of a message has been decoded and encoded again.
C6_Witness ==
    /\ Reencoded("CompletionRequest") /\ damage.op = "add"
    /\ Len(damage.at) >= 5
    /\ HasKey(JAt(sent, damage.at), "type")
    /\ ~HasKey(wire, damage.key)

\* The fields each variant cannot be decoded without.
BlockRequired(tag) ==
    CASE tag = "text"        -> {"text"}
      [] tag = "tool_use"    -> {"id", "name", "input"}
      [] tag = "tool_result" -> {"tool_use_id", "content"}
      [] tag = "document"    -> {"source"}

SourceRequired(tag) ==
    CASE tag = "text"    -> {"media_type", "data"}
      [] tag = "base64"  -> {"media_type", "data"}
      [] tag = "content" -> {"content"}
      [] tag = "url"     -> {"url"}

\* C7: a content block, or a document source, whose type is none of the
\* known ones fails to decode with unknown variant; so does a Document
\* whose source has such a type; a block or source of a known type without
\* one of that variant's required fields fails with missing field naming it.
C7_DiscriminatorRejected ==
    /\ (pc = "decoded" /\ src = "received" /\ kind \in {"MessageContent", "DocumentSource"}
            /\ Damaged("retag", << >>)) =>
          result = Err("unknown_variant", "unknown_kind")
    /\ (Decoded("MessageContent") /\ Damaged("retag", << AtKey("source") >>)) =>
          result = Err("unknown_variant", "unknown_kind")
    /\ (Decoded("MessageContent") /\ Damaged("drop", << >>)
            /\ damage.key \in BlockRequired(sent.o["type"].s)) =>
          result = Err("missing_field", damage.key)
    /\ (Decoded("DocumentSource") /\ Damaged("drop", << >>)
            /\ damage.key \in SourceRequired(sent.o["type"].s)) =>
          result = Err("missing_field", damage.key)

\* C7 happens: a block with type unknown_kind has been decoded, and failed.
C7_Witness ==
    /\ Decoded("MessageContent") /\ Damaged("retag", << >>)
    /\ wire.o["type"] = JStr("unknown_kind")
    /\ ~result.ok

\* C8: a request whose system is the bare string t and one whose system is
\* the array of the one segment with text t both decode, to the String arm
\* and to the Array arm, which differ; encoding either again writes the
\* system field as it came: a string a string, an array an array whose
\* segments have cache_control where they had it and not where they did not.
C8_SystemShapesKept ==
    /\ (Decoded("CompletionRequest") /\ damage = NoDamage /\ "system" \in DOMAIN sent.o) =>
          /\ result.ok
          /\ sent.o["system"].k = "string" =>
                /\ result.v.system = Some([arm |-> "String", String |-> sent.o["system"].s])
                /\ result.v.system #
                      Deserialize(TOption(SystemMessageFormat),
                                  JArr(<< SegmentJ(sent.o["system"].s) >>)).v
          /\ sent.o["system"].k = "array" =>
                /\ result.v.system.some
                /\ result.v.system.v.arm = "Array"
                /\ Len(result.v.system.v.Array) = Len(sent.o["system"].a)
    /\ (Reencoded("CompletionRequest") /\ damage = NoDamage /\ "system" \in DOMAIN sent.o) =>
          /\ "system" \in DOMAIN wire.o
          /\ wire.o["system"] = sent.o["system"]

\* C8 happens: a request whose system is the one segment with text t and no
\* cache control has been decoded to the Array arm and encoded again.
C8_Witness ==
    /\ Reencoded("CompletionRequest") /\ damage = NoDamage
    /\ "system" \in DOMAIN sent.o
    /\ sent.o["system"] = JArr(<< SegmentJ(SystemText) >>)
    /\ result.v.system.v.arm = "Array"
    /\ wire.o["system"] = sent.o["system"]

\* C9: an identifier no arm names (an unrelated one, the empty string, a
\* prefix, an extension or a case variant of a listed one) gets 100000 from
\* get_max_tokens and the pair (8.00, 24.00) from get_pricing;
\* claude-3-7-sonnet-20250219 gets 200000 and (3.00, 15.00).
C9_ExactMatchOnly ==
    /\ (pc = "looked_up" /\ kind = "get_max_tokens") =>
          /\ value \notin MaxTokensTable => result = 100000
          /\ value = "claude-3-7-sonnet-20250219" => result = 200000
    /\ (pc = "looked_up" /\ kind = "get_pricing") =>
          /\ value \notin PricingTable => result = Pricing(800, 2400)
          /\ value = "claude-3-7-sonnet-20250219" => result = Pricing(300, 1500)

\* C9 happens: get_max_tokens has been asked about a case variant of a
\* listed identifier.
C9_Witness ==
    /\ pc = "looked_up" /\ kind = "get_max_tokens"
    /\ value = "CLAUDE-3-7-SONNET-20250219"
    /\ result = 100000

\* The fields a value of ty writes: a struct's, or those of its variant.
FieldsOf(ty, v) ==
    IF ty.t = "struct" THEN ty.fields
    ELSE ty.variants[VariantNamed(ty.variants, v.variant)].fields

\* Each Option field of v is in the object o if and only if it is Some, and
\* never as null.
OptionalsOmitted(fields, v, o) ==
    \A i \in 1..Len(fields) :
        fields[i].ty.t = "Option" =>
            /\ fields[i].key \in DOMAIN o <=> v[fields[i].name].some
            /\ fields[i].key \in DOMAIN o => o[fields[i].key] # JNull

\* C10 as stated: whatever value of whatever record type is encoded, each of
\* its optional fields is written if and only if it is present, and none as
\* an explicit null.
C10_AbsentOptionalsOmitted ==
    (pc = "encoded" /\ src = "built") =>
        OptionalsOmitted(FieldsOf(TypeOf(kind), value), value, wire.o)

\* Where the usage record is in a payload of the kind handled, the usage
\* record as its sender wrote it, and the Usage decoded from it.
UsagePlace == IF kind = "Usage" THEN << >> ELSE << AtKey("usage") >>

SentUsage == JAt(sent, UsagePlace).o

DecodedUsage == IF kind = "Usage" THEN result.v ELSE result.v.usage

\* A payload holding a usage record has been decoded.
DecodedWithUsage ==
    pc = "decoded" /\ src = "received" /\ kind \in {"Usage", "CompletionResponse"}

TokenCounts == {"input_tokens", "output_tokens"}

CacheCounts == {"cache_read_input_tokens", "cache_creation_input_tokens"}

\* The cache counts the delivered usage record holds: those sent, less the
\* one dropped on the way.
DeliveredCounts ==
    (CacheCounts \cap DOMAIN SentUsage)
        \ (IF damage.op = "drop" /\ damage.at = UsagePlace THEN {damage.key} ELSE {})

\* C11: a response without usage, or whose usage lacks input_tokens or
\* output_tokens or has there something that is no non-negative integer,
\* fails to decode; a cache count absent from the payload is decoded as the
\* absent value and one that is 0 as 0, also when the decoded value is
\* encoded and decoded again.
C11_UsageCounts ==
    /\ (Decoded("CompletionResponse") /\ Damaged("drop", << >>) /\ damage.key = "usage") =>
          result = Err("missing_field", "usage")
    /\ (DecodedWithUsage /\ Damaged("drop", UsagePlace) /\ damage.key \in TokenCounts) =>
          result = Err("missing_field", damage.key)
    /\ (DecodedWithUsage /\ damage.op \in {"mistype", "null"} /\ damage.at = UsagePlace
            /\ damage.key \in TokenCounts) =>
          ~result.ok
    /\ (DecodedWithUsage
            /\ (damage = NoDamage \/ (Damaged("drop", UsagePlace) /\ damage.key \in CacheCounts))) =>
          /\ result.ok
          /\ \A c \in CacheCounts :
                DecodedUsage[c] =
                    IF c \in DeliveredCounts THEN Some(SentUsage[c].n) ELSE None

\* C11 happens: a usage sent with cache_read_input_tokens 0 and without
\* cache_creation_input_tokens has been decoded, encoded (the absent count
\* written as null) and decoded again, and the one is still 0 and the other
\* still absent.
C11_Witness ==
    /\ DecodedWithUsage /\ Damaged("drop", UsagePlace)
    /\ damage.key = "cache_creation_input_tokens"
    /\ "cache_read_input_tokens" \in DOMAIN SentUsage
    /\ SentUsage["cache_read_input_tokens"] = JNum(0)
    /\ "cache_creation_input_tokens" \in DOMAIN JAt(wire, UsagePlace).o
    /\ JAt(wire, UsagePlace).o["cache_creation_input_tokens"] = JNull
    /\ DecodedUsage["cache_read_input_tokens"] = Some(0)
    /\ DecodedUsage["cache_creation_input_tokens"] = None

\* Message::new_structured has returned, and its value may have gone on.
Constructed == call.fn = "new_structured" /\ pc \in {"built", "encoded", "decoded"}

\* C12: for every role and every sequence of blocks, the empty one
\* included, new_structured returns the message with that role whose
\* content is the Structured arm holding those blocks in that order, never
\* the bare string; encoded, its content is an array of as many elements.
C12_NewStructured ==
    /\ Constructed =>
          /\ DOMAIN value = {"role", "content"}
          /\ value.role = call.role
          /\ value.content = [arm |-> "Structured", Structured |-> call.content]
    /\ (Constructed /\ pc = "encoded") =>
          /\ wire.o["content"].k = "array"
          /\ Len(wire.o["content"].a) = Len(call.content)

\* C12 happens: new_structured has been called with an unconventional role
\* and two different blocks, and returned them in the order given.
C12_Witness ==
    /\ Constructed /\ pc = "built"
    /\ call.role = "tool"
    /\ Len(call.content) = 2
    /\ call.content[1] # call.content[2]
    /\ value.content.Structured[1] = call.content[1]
    /\ value.content.Structured[2] = call.content[2]
=============================================================================
